---- MODULE Spec2Model ----
(***************************************************************************)
(* nana-memo: the backup import pipeline (decompression probe, format      *)
(* dispatch, JSON / database / text-extraction strategies) and the restore *)
(* merge into the note collection.                                         *)
(*                                                                         *)
(* Library calls (pako.inflate, sql.js, TextDecoder + RegExp, Date) are    *)
(* modelled by their observable results on the input: an input file is a   *)
(* record of exactly the features the code inspects.                       *)
(***************************************************************************)
EXTENDS Integers, Sequences, FiniteSets, Bags, TLC

VARIABLES
    notes,      \* the note collection (React state `notes`), an array of Note
    before,     \* the collection as it was when the last restore began
    batch,      \* the imported note list handed to the last restore merge
    merges,     \* how many times `batch` has been merged (0, 1 or 2)
    file,       \* the file handed to the import: its name and its buffer
    clk,        \* the readings Date.now() gives during the import, in order
    run,        \* what the last import did: its outcome and what it touched
    wk,         \* the Settings component and its worker: flags, message queues
    http        \* the converter's HTTP exchange: the request and the responses

vars == <<notes, before, batch, merges, file, clk, run, wk, http>>

(***************************************************************************)
(* Bounds of the model.                                                    *)
(***************************************************************************)
MaxTime == 1        \* timestamps range over 0..MaxTime (and NaN)
MaxBatch == 2       \* longest imported batch
MaxRows == 2        \* most rows in the notes table of a database backup
MaxFields == 2      \* most "text": "..." matches in a buffer
MaxTick == 1        \* most the clock advances during one import
MaxItems == 2       \* most elements in a JSON backup

(***************************************************************************)
(* Numbers.  JavaScript's NaN is the value new Date(x).getTime() yields    *)
(* for an unparseable x; every comparison with NaN is false.               *)
(***************************************************************************)
NaN == -1

Undefined == -3     \* a number field left undefined

JsonNull == -4      \* a number field holding null: what JSON.stringify makes of NaN

IsNaN(x) == x = NaN

\* ToNumber(x) is NaN
NotANumber(x) == x \in {NaN, Undefined}

\* ToNumber(x), for an x it makes a number of
ToNumber(x) == IF x = JsonNull THEN 0 ELSE x

\* a >= b in JavaScript
GeqJS(a, b) == ~NotANumber(a) /\ ~NotANumber(b) /\ ToNumber(a) >= ToNumber(b)

\* a < b in JavaScript
LtJS(a, b) == ~NotANumber(a) /\ ~NotANumber(b) /\ ToNumber(a) < ToNumber(b)

(***************************************************************************)
(* Notes.                                                                  *)
(***************************************************************************)
DefaultColor == "text-slate-800 dark:text-slate-200"
DefaultFont == "font-sans"
DefaultFontSize == "text-lg"

Note(id, content, createdAt, updatedAt, isPinned) ==
    [id |-> id, content |-> content, createdAt |-> createdAt,
     updatedAt |-> updatedAt, isPinned |-> isPinned,
     color |-> DefaultColor, font |-> DefaultFont, fontSize |-> DefaultFontSize]

\* ids and contents of the notes the merge is exercised on
MergeIds == {"x", "y"}
MergeContents == {"a", "b"}
Times == (0..MaxTime) \cup {NaN}

MergeNotes ==
    {Note(i, c, 0, u, FALSE) : i \in MergeIds, c \in MergeContents, u \in Times}

\* all sequences over S of length at most n
SeqsUpTo(S, n) == UNION {[1..k -> S] : k \in 0..n}

UniqueIds(coll) ==
    \A i, j \in DOMAIN coll : coll[i].id = coll[j].id => i = j

(***************************************************************************)
(* The restore merge: a Map keyed by id, in insertion order.               *)
(***************************************************************************)
MapHas(m, id) == \E i \in DOMAIN m : m[i].id = id

MapGet(m, id) == m[CHOOSE i \in DOMAIN m : m[i].id = id]

\* Map.prototype.set: replace in place, or append a new key
MapSet(m, note) ==
    IF MapHas(m, note.id)
    THEN [i \in DOMAIN m |-> IF m[i].id = note.id THEN note ELSE m[i]]
    ELSE Append(m, note)

RECURSIVE SeedMap(_, _)
\* for (const note of currentNotes) notesMap.set(note.id, note)
SeedMap(m, currentNotes) ==
    IF currentNotes = <<>> THEN m
    ELSE SeedMap(MapSet(m, Head(currentNotes)), Tail(currentNotes))

\* the comparison dropped: every imported note overwrites
AdoptsAlways(importedNote, existingNote) == TRUE

\* importedNote.updatedAt > existingNote.updatedAt
AdoptsStrict(importedNote, existingNote) ==
    LtJS(existingNote.updatedAt, importedNote.updatedAt)

\* importedNote.updatedAt >= existingNote.updatedAt
Adopts(importedNote, existingNote) ==
    GeqJS(importedNote.updatedAt, existingNote.updatedAt)

\* the !existingNote test dropped: an id the Map lacks is never inserted
MergeStepKnownOnly(m, importedNote) ==
    IF MapHas(m, importedNote.id) /\ Adopts(importedNote, MapGet(m, importedNote.id))
    THEN MapSet(m, importedNote)
    ELSE m

\* one iteration of: for (const importedNote of notes) { ... }
MergeStep(m, importedNote) ==
    IF ~MapHas(m, importedNote.id) \/ Adopts(importedNote, MapGet(m, importedNote.id))
    THEN MapSet(m, importedNote)
    ELSE m

RECURSIVE MergeFold(_, _)
MergeFold(m, imported) ==
    IF imported = <<>> THEN m
    ELSE MergeFold(MergeStep(m, Head(imported)), Tail(imported))

\* [...currentNotes, ...notes]: appended without the Map
MergeAppend(currentNotes, imported) == currentNotes \o imported

\* setNotes((currentNotes) => { ...; return Array.from(notesMap.values()); })
Merge(currentNotes, imported) ==
    MergeFold(SeedMap(<<>>, currentNotes), imported)

(***************************************************************************)
(* Input files.  A byte string is described by what the code reads of it:  *)
(* its length, its first byte, whether its first 16 bytes decode to the    *)
(* SQLite header, the captures of the "text": "..." pattern in its UTF-8   *)
(* decoding, what sql.js finds when it is opened as a database, and what   *)
(* JSON.parse makes of its text.  A buffer is its raw bytes together with  *)
(* what pako.inflate makes of them.                                        *)
(***************************************************************************)
ZlibMagic == 120        \* 0x78
ProbeMinLength == 2     \* bytes.length > 2
HeaderLength == 16      \* bytes.slice(0, 16)
SqlNull == -2           \* a NULL (or absent) integer column
PinnedFlag == 1         \* obj.ear === 1

SqlNullText == "<null>" \* a NULL (or absent) text column

\* the length of a buffer long enough to hold a header and some notes
BigSize == HeaderLength * 4

\* creation_date / update_date values, and what new Date(x).getTime() gives
DateValues == {"1970-01-01T00:00:00.000Z", "1970-01-01T00:00:00.001Z", "not a date"}

DateParse(x) ==
    CASE x = "1970-01-01T00:00:00.000Z" -> 0
      [] x = "1970-01-01T00:00:00.001Z" -> 1
      [] OTHER -> NaN

\* captures of the pattern, as they stand in the file (still escaped)
Captures == {"hello", "a\\nb", "  ", "", "bad\\q"}

\* JSON.parse('"' + capture + '"'): the unescaped string, or a SyntaxError
Unescape(c) ==
    CASE c = "a\\nb" -> [ok |-> TRUE, s |-> "a\nb"]
      [] c = "bad\\q" -> [ok |-> FALSE, s |-> ""]
      [] OTHER -> [ok |-> TRUE, s |-> c]

\* String.prototype.trim
Trim(s) == IF s = "  " THEN "" ELSE s

TableNames == {"NOTE_TB", "note_tb", "my_Notes", "mimi_notes", "notes", "log", ""}

\* String.prototype.toUpperCase
ToUpperCase(t) ==
    CASE t = "note_tb" -> "NOTE_TB"
      [] t = "my_Notes" -> "MY_NOTES"
      [] t = "mimi_notes" -> "MIMI_NOTES"
      [] t = "notes" -> "NOTES"
      [] t = "log" -> "LOG"
      [] OTHER -> t

\* String.prototype.toLowerCase
ToLowerCase(t) ==
    CASE t = "NOTE_TB" -> "note_tb"
      [] t = "my_Notes" -> "my_notes"
      [] t = "A.JSON" -> "a.json"
      [] t = "A.MIMIBK" -> "a.mimibk"
      [] OTHER -> t

\* t.includes("note"), for a lower-cased table name
IncludesNote(t) == t \in {"note_tb", "my_notes", "mimi_notes", "notes"}

Row(id, creation, update, text, title, ear) ==
    [_id |-> id, creation_date |-> creation, update_date |-> update,
     text |-> text, title |-> title, ear |-> ear]

\* what sql.js finds in the bytes
Db(openThrows, tablesThrows, tables, rowsThrows, rows) ==
    [openThrows |-> openThrows, tablesThrows |-> tablesThrows, tables |-> tables,
     rowsThrows |-> rowsThrows, rows |-> rows]

\* bytes that are no database: sql.js opens them, the first query throws
NotADb == Db(FALSE, TRUE, <<>>, TRUE, <<>>)

\* what JSON.parse makes of the decoded text
Json(parses, isArray, items) ==
    [parses |-> parses, isArray |-> isArray, items |-> items]

NotJson == Json(FALSE, FALSE, <<>>)

Content(size, first, magic, fields, db, json) ==
    [size |-> size, first |-> first, magic |-> magic, fields |-> fields,
     db |-> db, json |-> json]

\* no bytes at all: SQLite takes a file of length 0 for an empty database
EmptyDb == Db(FALSE, FALSE, <<>>, FALSE, <<>>)

EmptyContent == Content(0, 0, FALSE, <<>>, EmptyDb, NotJson)

\* inflates: pako.inflate returns `inner`; otherwise it throws
Buffer(raw, inflates, inner) == [raw |-> raw, inflates |-> inflates, inner |-> inner]

Plain(raw) == Buffer(raw, FALSE, EmptyContent)

(***************************************************************************)
(* The outcome of an import, with what it touched on the way.              *)
(***************************************************************************)
ErrEmpty == "file is empty"
ErrNoHeader == "no SQLite header"
ErrDbOpen == "sql.js: cannot open"
ErrDbQuery == "sql.js: query failed"
ErrNoTables == "no tables in DB"
ErrNoNoteTable == "note table not found"
ErrInvalidJson == "invalid JSON file format"
ErrJsonSyntax == "SyntaxError"
ErrJsonType == "TypeError"
ErrNotArray == "invalid file format: not an array"
ErrUnsupportedBackup == "unsupported backup file format"
ErrUnsupported == "unsupported file format"
ErrInflate == "pako: incorrect header check"
ErrProcessing == "backup file processing failed"

\* `DBの解析に失敗しました: ${sqliteError.message}`
ErrDbFailed(message) == "DB parse failed: " \o message

Idle ==
    [entry |-> "idle", done |-> FALSE, ok |-> FALSE, notes |-> <<>>, error |-> "",
     strategy |-> "none", probeRan |-> FALSE, inflateTried |-> FALSE,
     bytes |-> EmptyContent, headerChecked |-> FALSE,
     dbOpened |-> FALSE, dbClosed |-> FALSE,
     textRan |-> FALSE, textOn |-> EmptyContent, stageError |-> ""]

Failed(r, strategy, error) ==
    [r EXCEPT !.done = TRUE, !.ok = FALSE, !.notes = <<>>, !.error = error,
              !.strategy = strategy]

Returned(r, strategy, importedNotes) ==
    [r EXCEPT !.done = TRUE, !.ok = TRUE, !.notes = importedNotes, !.error = "",
              !.strategy = strategy]

(***************************************************************************)
(* The Settings component of part_003 and its worker.  A message is the    *)
(* object handed to postMessage: `keys` is the set of its keys.            *)
(***************************************************************************)
MaxRequests == 2        \* most requests the user starts

MaxReruns == 1          \* most times the Settings effect runs again

MaxEdits == 1           \* most changes made to the notes while Settings is open

ChunkSizeMobile == 100  \* const chunkSize = isMobile ? 100 : 500

\* {type, buffer, name}
Request(type, f) ==
    [keys |-> {"type", "buffer", "name"}, type |-> type,
     buffer |-> f.buffer, name |-> f.name]

\* { success: true, type, notes }
SuccessReply(type, importedNotes) ==
    [keys |-> {"success", "type", "notes"}, success |-> TRUE, type |-> type,
     notes |-> importedNotes, error |-> "", progress |-> 0]

\* { success: false, type, error }
FailureReply(type, error) ==
    [keys |-> {"success", "type", "error"}, success |-> FALSE, type |-> type,
     notes |-> <<>>, error |-> error, progress |-> 0]

\* { type: 'PROGRESS', progress }, the progress held in percent
ProgressMessage(percent) ==
    [keys |-> {"type", "progress"}, success |-> FALSE, type |-> "PROGRESS",
     notes |-> <<>>, error |-> "", progress |-> percent]

\* no request has reached the converter
NoExchange == [request |-> [method |-> "", form |-> ""], responses |-> <<>>]

\* the component before anything is asked of it, on a desktop browser
NoWorker ==
    [mobile |-> FALSE, isProcessing |-> FALSE, showProgress |-> FALSE,
     importProgress |-> 0, toast |-> "", posted |-> 0,
     inbox |-> <<>>, outbox |-> <<>>, crossedIn |-> <<>>, crossedOut |-> <<>>,
     awaiting |-> "", generation |-> 0, edits |-> 0, atPost |-> <<>>]

(***************************************************************************)
(* parseMimiNoteBackup: probe, database strategy, text-extraction fallback *)
(***************************************************************************)
\* the probe with its catch missing: the inflate error escapes
ProbeRethrows(buffer) ==
    IF buffer.raw.size > ProbeMinLength /\ buffer.raw.first = ZlibMagic
    THEN IF buffer.inflates
         THEN [bytes |-> buffer.inner, tried |-> TRUE, raised |-> FALSE]
         ELSE [bytes |-> buffer.raw, tried |-> TRUE, raised |-> TRUE]
    ELSE [bytes |-> buffer.raw, tried |-> FALSE, raised |-> FALSE]

\* if (bytes.length > 2 && bytes[0] === 0x78) { try { bytes = pako.inflate(bytes) } catch {} }
Probe(buffer) ==
    IF buffer.raw.size > ProbeMinLength /\ buffer.raw.first = ZlibMagic
    THEN IF buffer.inflates
         THEN [bytes |-> buffer.inner, tried |-> TRUE, raised |-> FALSE]
         ELSE [bytes |-> buffer.raw, tried |-> TRUE, raised |-> FALSE]
    ELSE [bytes |-> buffer.raw, tried |-> FALSE, raised |-> FALSE]

\* new TextDecoder().decode(bytes.slice(0, 16)).startsWith("SQLite format 3")
HasSQLiteHeader(bytes) == bytes.magic

\* Array.prototype.find over the table names; "" stands for undefined
FindTable(tables, matching) ==
    IF \E i \in DOMAIN tables : tables[i] \in matching
    THEN tables[CHOOSE i \in DOMAIN tables :
                    /\ tables[i] \in matching
                    /\ \A j \in DOMAIN tables : tables[j] \in matching => i <= j]
    ELSE ""

\* t.toUpperCase() === "NOTE_TB"
CanonicalNames == {t \in TableNames : ToUpperCase(t) = "NOTE_TB"}

\* t.toLowerCase().includes("note")
NoteLikeNames == {t \in TableNames : IncludesNote(ToLowerCase(t))}

\* tables.find(NOTE_TB) || tables.find(includes "note") || tables[0]
SelectTable(tables) ==
    IF FindTable(tables, CanonicalNames) # "" THEN FindTable(tables, CanonicalNames)
    ELSE IF FindTable(tables, NoteLikeNames) # "" THEN FindTable(tables, NoteLikeNames)
    ELSE tables[1]

\* String(n + Math.random()); the k-th draw of an import has the digits k,
\* so the draws of one import are pairwise distinct
StringOfJittered(n, k) ==
    IF IsNaN(n) THEN "NaN" ELSE ToString(n) \o "." \o ToString(k)

\* String(n)
StringOfNumber(n) == IF IsNaN(n) THEN "NaN" ELSE ToString(n)

\* obj.text || obj.title || ""
TextOrTitle(row) ==
    IF row.text \notin {SqlNullText, ""} THEN row.text
    ELSE IF row.title \notin {SqlNullText, ""} THEN row.title
    ELSE ""

\* the body of rows.map: the k-th row, mapped while the clock reads `now`
RowToNote(row, now, k) ==
    LET createdAt == IF row.creation_date \notin {SqlNullText, ""}
                     THEN DateParse(row.creation_date) ELSE now
        updatedAt == IF row.update_date \notin {SqlNullText, ""}
                     THEN DateParse(row.update_date) ELSE createdAt
    IN Note(IF row._id \notin {SqlNull, 0}
            THEN StringOfNumber(row._id) ELSE StringOfJittered(createdAt, k),
            TextOrTitle(row), createdAt, updatedAt, row.ear = PinnedFlag)

MapRows(rows, clock) == [k \in DOMAIN rows |-> RowToNote(rows[k], clock[k], k)]

\* the database strategy with `if (!rowsResult.length) return []` taken for
\* an error: an empty table throws
DatabaseStageEmptyThrows(r, bytes, clock) ==
    LET checked == [r EXCEPT !.headerChecked = TRUE]
        opened == [checked EXCEPT !.dbOpened = TRUE, !.dbClosed = TRUE]
    IN  IF ~HasSQLiteHeader(bytes) THEN Failed(checked, "database", ErrNoHeader)
        ELSE IF bytes.db.openThrows THEN Failed(checked, "database", ErrDbOpen)
        ELSE IF bytes.db.tablesThrows THEN Failed(opened, "database", ErrDbQuery)
        ELSE IF bytes.db.tables = <<>> THEN Failed(opened, "database", ErrNoTables)
        ELSE IF SelectTable(bytes.db.tables) = ""
             THEN Failed(opened, "database", ErrNoNoteTable)
        ELSE IF bytes.db.rowsThrows THEN Failed(opened, "database", ErrDbQuery)
        ELSE IF bytes.db.rows = <<>> THEN Failed(opened, "database", ErrNoTables)
        ELSE Returned(opened, "database", MapRows(bytes.db.rows, clock))

\* the first try block: header check, open, table selection, rows, finally close
DatabaseStage(r, bytes, clock) ==
    LET checked == [r EXCEPT !.headerChecked = TRUE]
        opened == [checked EXCEPT !.dbOpened = TRUE, !.dbClosed = TRUE]
    IN  IF ~HasSQLiteHeader(bytes) THEN Failed(checked, "database", ErrNoHeader)
        ELSE IF bytes.db.openThrows THEN Failed(checked, "database", ErrDbOpen)
        ELSE IF bytes.db.tablesThrows THEN Failed(opened, "database", ErrDbQuery)
        ELSE IF bytes.db.tables = <<>> THEN Failed(opened, "database", ErrNoTables)
        ELSE IF SelectTable(bytes.db.tables) = ""
             THEN Failed(opened, "database", ErrNoNoteTable)
        ELSE IF bytes.db.rowsThrows THEN Failed(opened, "database", ErrDbQuery)
        ELSE IF bytes.db.rows = <<>> THEN Returned(opened, "database", <<>>)
        ELSE Returned(opened, "database", MapRows(bytes.db.rows, clock))

RECURSIVE ExtractLoopCountsMatches(_, _, _, _, _)
RECURSIVE ExtractLoop(_, _, _, _, _)
\* i++ moved out of the if: the counter runs over every match
ExtractLoopCountsMatches(fields, clock, k, i, extractedNotes) ==
    IF k > Len(fields) THEN extractedNotes
    ELSE LET content == Unescape(fields[k])
             now == clock[k] + i
         IN IF content.ok /\ content.s # "" /\ Trim(content.s) # ""
            THEN ExtractLoopCountsMatches(fields, clock, k + 1, i + 1,
                    Append(extractedNotes,
                           Note(StringOfNumber(now), content.s, now, now, FALSE)))
            ELSE ExtractLoopCountsMatches(fields, clock, k + 1, i + 1, extractedNotes)

\* the while loop over the matches: k-th match, i surviving fragments so far
ExtractLoop(fields, clock, k, i, extractedNotes) ==
    IF k > Len(fields) THEN extractedNotes
    ELSE LET content == Unescape(fields[k])
             now == clock[k] + i
         IN IF content.ok /\ content.s # "" /\ Trim(content.s) # ""
            THEN ExtractLoop(fields, clock, k + 1, i + 1,
                    Append(extractedNotes,
                           Note(StringOfNumber(now), content.s, now, now, FALSE)))
            ELSE ExtractLoop(fields, clock, k + 1, i, extractedNotes)

\* the inner catch dropped: the extraction error leaves on its own
TextStageOwnError(r, decoded, clock) ==
    LET extractedNotes == ExtractLoop(decoded.fields, clock, 1, 0, <<>>)
        ran == [r EXCEPT !.textRan = TRUE, !.textOn = decoded, !.stageError = r.error]
    IN  IF Len(extractedNotes) > 0 THEN Returned(ran, "text", extractedNotes)
        ELSE Failed(ran, "text", "no notes extracted from text")

\* the catch block: text extraction over the decoded buffer
TextStage(r, decoded, clock) ==
    LET extractedNotes == ExtractLoop(decoded.fields, clock, 1, 0, <<>>)
        ran == [r EXCEPT !.textRan = TRUE, !.textOn = decoded, !.stageError = r.error]
    IN  IF Len(extractedNotes) > 0 THEN Returned(ran, "text", extractedNotes)
        ELSE Failed(ran, "text", ErrDbFailed(r.error))

\* export async function parseMimiNoteBackup({buffer})
ParseMimiNoteBackup(r, buffer, clock) ==
    IF buffer.raw.size = 0 THEN Failed(r, "none", ErrEmpty)
    ELSE LET p == Probe(buffer)
             probed == [r EXCEPT !.probeRan = TRUE, !.inflateTried = p.tried,
                                 !.bytes = p.bytes]
             db == DatabaseStage(probed, p.bytes, clock)
         IN  IF p.raised THEN Failed(probed, "none", ErrInflate)
             ELSE IF db.ok THEN db
             ELSE TextStage(db, buffer.raw, clock)

(***************************************************************************)
(* The JSON strategy.  A parsed element is an object: `has` is the set of  *)
(* its keys, and a key's field holds its value when the key is present.    *)
(***************************************************************************)
UndefinedText == "<undefined>"  \* a string field left undefined

NativeKeys == {"id", "content", "createdAt", "updatedAt",
               "isPinned", "color", "font", "fontSize"}
OptionalKeys == {"isPinned", "color", "font", "fontSize"}
LegacyKeys == {"note_id", "text", "created_at", "updated_at", "pinned"}

JsonItem(has, id, updatedAt, note_id, created_at) ==
    [kind |-> "object",
     has |-> has, id |-> id, content |-> "c", createdAt |-> 1, updatedAt |-> updatedAt,
     isPinned |-> TRUE, color |-> "text-rose-500", font |-> "font-serif",
     fontSize |-> "text-sm",
     note_id |-> note_id, text |-> "t", created_at |-> created_at,
     updated_at |-> "1970-01-01T00:00:00.001Z", pinned |-> TRUE]

\* an element that is no object: a number (kind "number") or null
JsonPrimitive(kind) == [JsonItem({}, "", 0, 0, "") EXCEPT !.kind = kind]

\* `key in x` throws a TypeError for an x that is not an object
InThrows(x) == x.kind # "object"

\* x.key throws a TypeError for null, and is undefined for a number
GetThrows(x) == x.kind = "null"

\* n.key, for a string-valued key
GetText(n, key, value) == IF key \in n.has THEN value ELSE UndefinedText

\* n.key, for a number-valued key
GetNumber(n, key, value) == IF key \in n.has THEN value ELSE Undefined

\* n.key || fallback, for a string-valued key
TextOr(n, key, value, fallback) ==
    IF key \in n.has /\ value # "" THEN value ELSE fallback

\* n.key || fallback, for a number-valued key
NumberOr(n, key, value, fallback) ==
    IF key \in n.has /\ value \notin {0, NaN, JsonNull} THEN value ELSE fallback

\* parseFile's map: the k-th element, mapped while the clock reads `now`
WorkerJsonToNote(n, now, k) ==
    [id |-> TextOr(n, "id", n.id, StringOfJittered(now, k)),
     content |-> TextOr(n, "content", n.content, ""),
     createdAt |-> NumberOr(n, "createdAt", n.createdAt, now),
     updatedAt |-> NumberOr(n, "updatedAt", n.updatedAt, now),
     isPinned |-> ("isPinned" \in n.has /\ n.isPinned),
     color |-> TextOr(n, "color", n.color, DefaultColor),
     font |-> TextOr(n, "font", n.font, DefaultFont),
     fontSize |-> TextOr(n, "fontSize", n.fontSize, DefaultFontSize)]

\* parseFile, the .json branch (the same code stands in Settings.tsx)
WorkerJsonStage(r, decoded, clock) ==
    LET parsedData == decoded.json
    IN  IF ~parsedData.parses THEN Failed(r, "json", ErrJsonSyntax)
        ELSE IF parsedData.isArray /\ parsedData.items # <<>>
                /\ InThrows(parsedData.items[1])
        THEN Failed(r, "json", ErrJsonType)
        ELSE IF parsedData.isArray
                /\ (parsedData.items = <<>> \/ "content" \in parsedData.items[1].has)
        THEN IF \E k \in DOMAIN parsedData.items : GetThrows(parsedData.items[k])
             THEN Failed(r, "json", ErrJsonType)
             ELSE Returned(r, "json",
                    [k \in DOMAIN parsedData.items |->
                        WorkerJsonToNote(parsedData.items[k], clock[k], k)])
        ELSE Failed(r, "json", ErrInvalidJson)

\* src/src/App.tsx: ({...n, isPinned: n.isPinned || false, color: ..., ...})
AppJsonToNote(n) ==
    [id |-> GetText(n, "id", n.id),
     content |-> GetText(n, "content", n.content),
     createdAt |-> GetNumber(n, "createdAt", n.createdAt),
     updatedAt |-> GetNumber(n, "updatedAt", n.updatedAt),
     isPinned |-> ("isPinned" \in n.has /\ n.isPinned),
     color |-> TextOr(n, "color", n.color, DefaultColor),
     font |-> TextOr(n, "font", n.font, DefaultFont),
     fontSize |-> TextOr(n, "fontSize", n.fontSize, DefaultFontSize)]

\* src/src/App.tsx proceedWithRestore, the .json branch
AppJsonStage(r, decoded) ==
    LET parsedData == decoded.json
    IN  IF ~parsedData.parses THEN Failed(r, "json", ErrJsonSyntax)
        ELSE IF parsedData.isArray /\ Len(parsedData.items) > 0
                /\ InThrows(parsedData.items[1])
        THEN Failed(r, "json", ErrJsonType)
        ELSE IF parsedData.isArray /\ Len(parsedData.items) > 0
                /\ "content" \in parsedData.items[1].has
        THEN IF \E k \in DOMAIN parsedData.items : GetThrows(parsedData.items[k])
             THEN Failed(r, "json", ErrJsonType)
             ELSE Returned(r, "json",
                    [k \in DOMAIN parsedData.items |-> AppJsonToNote(parsedData.items[k])])
        ELSE Failed(r, "json", ErrInvalidJson)

\* new Date(x).getTime() of a key that may be absent; index counts from 0
LegacyDate(n, key, value, now, index) ==
    IF key \in n.has /\ value # "" THEN DateParse(value) ELSE now - index

\* part_001, the note_id/text variant: the element at `index`
LegacyJsonToNote(n, now, index) ==
    LET createdAt == LegacyDate(n, "created_at", n.created_at, now, index)
        updatedAt == LegacyDate(n, "updated_at", n.updated_at, now, index)
    IN Note(IF "note_id" \in n.has /\ n.note_id # 0
            THEN StringOfNumber(n.note_id) ELSE StringOfNumber(createdAt),
            TextOr(n, "text", n.text, ""),
            IF IsNaN(createdAt) THEN now - index ELSE createdAt,
            IF IsNaN(updatedAt) THEN now - index ELSE updatedAt,
            "pinned" \in n.has /\ n.pinned)

\* part_001, the id/content/createdAt variant: the four core fields as given
LegacyNativeToNote(n) ==
    [id |-> GetText(n, "id", n.id),
     content |-> GetText(n, "content", n.content),
     createdAt |-> GetNumber(n, "createdAt", n.createdAt),
     updatedAt |-> GetNumber(n, "updatedAt", n.updatedAt),
     isPinned |-> ("isPinned" \in n.has /\ n.isPinned),
     color |-> TextOr(n, "color", n.color, DefaultColor),
     font |-> TextOr(n, "font", n.font, DefaultFont),
     fontSize |-> TextOr(n, "fontSize", n.fontSize, DefaultFontSize)]

\* part_001 reader.onload: both variants, by the keys of the first element
LegacyJsonStage(r, decoded, clock) ==
    LET parsedData == decoded.json
        items == parsedData.items
    IN  IF ~parsedData.parses THEN Failed(r, "json", ErrJsonSyntax)
        ELSE IF ~parsedData.isArray THEN Failed(r, "json", ErrNotArray)
        ELSE IF items = <<>> THEN Returned(r, "json", <<>>)
        ELSE IF InThrows(items[1]) THEN Failed(r, "json", ErrJsonType)
        ELSE IF ~({"id", "content", "createdAt"} \subseteq items[1].has)
                /\ ~({"note_id", "text"} \subseteq items[1].has)
        THEN Failed(r, "json", ErrUnsupportedBackup)
        ELSE IF \E k \in DOMAIN items : GetThrows(items[k])
        THEN Failed(r, "json", ErrJsonType)
        ELSE IF {"id", "content", "createdAt"} \subseteq items[1].has
        THEN Returned(r, "json", [k \in DOMAIN items |-> LegacyNativeToNote(items[k])])
        ELSE Returned(r, "json",
                [k \in DOMAIN items |-> LegacyJsonToNote(items[k], clock[k], k - 1)])

\* src/App.tsx, importedNotes = parsedData: the element as it stands (an
\* absent isPinned is falsy, as false is)
RootNativeToNote(n) ==
    [id |-> GetText(n, "id", n.id),
     content |-> GetText(n, "content", n.content),
     createdAt |-> GetNumber(n, "createdAt", n.createdAt),
     updatedAt |-> GetNumber(n, "updatedAt", n.updatedAt),
     isPinned |-> ("isPinned" \in n.has /\ n.isPinned),
     color |-> GetText(n, "color", n.color),
     font |-> GetText(n, "font", n.font),
     fontSize |-> GetText(n, "fontSize", n.fontSize)]

\* src/App.tsx reader.onload: the legacy map sets no fontSize, and every
\* imported note must have the keys id and content
RootJsonStage(r, decoded, clock) ==
    LET parsedData == decoded.json
        items == parsedData.items
    IN  IF ~parsedData.parses THEN Failed(r, "json", ErrJsonSyntax)
        ELSE IF ~parsedData.isArray THEN Failed(r, "json", ErrNotArray)
        ELSE IF items = <<>> THEN Returned(r, "json", <<>>)
        ELSE IF InThrows(items[1]) THEN Failed(r, "json", ErrJsonType)
        ELSE IF {"id", "content", "createdAt"} \subseteq items[1].has
        THEN IF \E k \in DOMAIN items :
                    /\ InThrows(items[k])
                    /\ \A j \in 1..(k - 1) : {"id", "content"} \subseteq items[j].has
             THEN Failed(r, "json", ErrJsonType)
             ELSE IF \A k \in DOMAIN items : {"id", "content"} \subseteq items[k].has
             THEN Returned(r, "json", [k \in DOMAIN items |-> RootNativeToNote(items[k])])
             ELSE Failed(r, "json", ErrProcessing)
        ELSE IF {"note_id", "text"} \subseteq items[1].has
        THEN IF \E k \in DOMAIN items : GetThrows(items[k])
             THEN Failed(r, "json", ErrJsonType)
             ELSE Returned(r, "json",
                    [k \in DOMAIN items |->
                        [LegacyJsonToNote(items[k], clock[k], k - 1)
                            EXCEPT !.fontSize = UndefinedText]])
        ELSE Failed(r, "json", ErrUnsupportedBackup)

(***************************************************************************)
(* Format dispatch.                                                        *)
(***************************************************************************)
FileNames == {"a.json", "A.JSON", "a.mimibk", "A.MIMIBK", "a.db",
              "a.sqlite", "a.sqlite3", "a"}

\* fileName.endsWith(ext), for a lower-cased name
EndsWith(fileName, ext) ==
    CASE ext = ".json" -> fileName = "a.json"
      [] ext = ".mimibk" -> fileName = "a.mimibk"
      [] ext = ".db" -> fileName = "a.db"
      [] ext = ".sqlite" -> fileName = "a.sqlite"
      [] ext = ".sqlite3" -> fileName = "a.sqlite3"
      [] OTHER -> FALSE

\* the dispatch with .sqlite, .sqlite3 and extension-less names let through
ParseFileAnyBinary(r, f, clock) ==
    LET fileName == ToLowerCase(f.name)
    IN  IF EndsWith(fileName, ".json") THEN WorkerJsonStage(r, f.buffer.raw, clock)
        ELSE ParseMimiNoteBackup(r, f.buffer, clock)

\* async function parseFile(buffer, name)
ParseFile(r, f, clock) ==
    LET fileName == ToLowerCase(f.name)
    IN  IF EndsWith(fileName, ".json") THEN WorkerJsonStage(r, f.buffer.raw, clock)
        ELSE IF EndsWith(fileName, ".mimibk") \/ EndsWith(fileName, ".db")
        THEN ParseMimiNoteBackup(r, f.buffer, clock)
        ELSE Failed(r, "none", ErrUnsupported)

(***************************************************************************)
(* src/src/App.tsx: parseMimiNoteBackup(file), the database strategy with  *)
(* no probe, no header check and no fallback.                              *)
(***************************************************************************)
\* parseDateString: " " replaced by "T", an unparseable date is now
ParseDateString(dateStr, now) ==
    IF dateStr \in {SqlNullText, ""} THEN now
    ELSE IF IsNaN(DateParse(dateStr)) THEN now ELSE DateParse(dateStr)

\* `<b>${title}</b><br><br>${text}`, or whichever of the two is given
TitleAndText(row) ==
    LET title == IF row.title = SqlNullText THEN "" ELSE row.title
        text == IF row.text = SqlNullText THEN "" ELSE row.text
    IN  IF title # "" /\ text # "" /\ title # text
        THEN "<b>" \o title \o "</b><br><br>" \o text
        ELSE IF text # "" THEN text ELSE title

AppRowToNote(row, now) ==
    LET createdAt == ParseDateString(row.creation_date, now)
        updatedAt == ParseDateString(row.update_date, now)
    IN Note(IF row._id \notin {SqlNull, 0}
            THEN StringOfNumber(row._id) ELSE StringOfNumber(createdAt),
            TitleAndText(row), createdAt, updatedAt, row.ear = PinnedFlag)

\* WHERE type='table' AND (name = 'mimi_notes' OR name = 'notes')
AppTables(tables) == SelectSeq(tables, LAMBDA t : t \in {"mimi_notes", "notes"})

AppParseMimiNoteBackup(r, buffer, clock) ==
    LET bytes == buffer.raw
        leaked == [r EXCEPT !.bytes = bytes, !.dbOpened = TRUE, !.dbClosed = FALSE]
        closed == [leaked EXCEPT !.dbClosed = TRUE]
    IN  IF bytes.db.openThrows
        THEN Failed([r EXCEPT !.bytes = bytes], "database", ErrDbOpen)
        ELSE IF bytes.db.tablesThrows THEN Failed(leaked, "database", ErrDbQuery)
        ELSE IF AppTables(bytes.db.tables) = <<>> \/ AppTables(bytes.db.tables)[1] = ""
        THEN Failed(closed, "database", ErrNoNoteTable)
        ELSE IF bytes.db.rowsThrows THEN Failed(leaked, "database", ErrDbQuery)
        ELSE IF bytes.db.rows = <<>> THEN Returned(closed, "database", <<>>)
        ELSE Returned(closed, "database",
                [k \in DOMAIN bytes.db.rows |-> AppRowToNote(bytes.db.rows[k], clock[k])])

\* src/src/App.tsx proceedWithRestore, up to the merge
AppParse(r, f, clock) ==
    LET fileName == ToLowerCase(f.name)
    IN  IF EndsWith(fileName, ".json") THEN AppJsonStage(r, f.buffer.raw)
        ELSE IF EndsWith(fileName, ".mimibk") \/ EndsWith(fileName, ".db")
        THEN AppParseMimiNoteBackup(r, f.buffer, clock)
        ELSE Failed(r, "none", ErrUnsupported)

\* part_003 with the byteLength test of proceedWithRestore missing
WorkerParseUnchecked(r, f, clock) == ParseFile(r, f, clock)

\* part_003: proceedWithRestore up to the postMessage, then the worker's RESTORE
WorkerParse(r, f, clock) ==
    IF f.buffer.raw.size = 0 THEN Failed(r, "none", ErrEmpty)
    ELSE ParseFile(r, f, clock)

\* Settings.tsx proceedWithRestore, up to the merge
SettingsParse(r, f, clock) ==
    IF f.buffer.raw.size = 0 THEN Failed(r, "none", ErrEmpty)
    ELSE ParseFile(r, f, clock)

(***************************************************************************)
(* mimibk-converter: the POST branch of fetch, from the probe to the       *)
(* response.  Every table is dumped; the handle is closed after the loop.  *)
(***************************************************************************)
ConverterConvert(r, buffer) ==
    LET p == Probe(buffer)
        probed == [r EXCEPT !.probeRan = TRUE, !.inflateTried = p.tried,
                            !.bytes = p.bytes]
        leaked == [probed EXCEPT !.dbOpened = TRUE, !.dbClosed = FALSE]
        closed == [leaked EXCEPT !.dbClosed = TRUE]
    IN  IF p.raised THEN Failed(probed, "none", ErrInflate)
        ELSE IF p.bytes.db.openThrows THEN Failed(probed, "database", ErrDbOpen)
        ELSE IF p.bytes.db.tablesThrows THEN Failed(leaked, "database", ErrDbQuery)
        ELSE IF \E i \in DOMAIN p.bytes.db.tables :
                    p.bytes.db.rowsThrows \/ p.bytes.db.tables[i] = ""
        THEN Failed(leaked, "database", ErrDbQuery)
        ELSE Returned(closed, "database", <<>>)

(***************************************************************************)
(* The inputs an import is exercised on.                                   *)
(***************************************************************************)
\* a primary key is NULL (the column is missing) or distinct in every row
RowValues ==
    {Row(id, creation, update, "t", "T", PinnedFlag) :
        id \in {SqlNull, 7},
        creation \in {SqlNullText} \cup DateValues,
        update \in {SqlNullText, "1970-01-01T00:00:00.001Z"}}

RowSeqs ==
    {rows \in SeqsUpTo(RowValues, MaxRows) :
        \A i, j \in DOMAIN rows :
            (rows[i]._id = rows[j]._id /\ rows[i]._id # SqlNull) => i = j}

TableLists ==
    {<<"NOTE_TB">>, <<"log", "my_Notes">>, <<"my_Notes", "note_tb">>,
     <<"log">>, <<"mimi_notes">>, <<"">>}

DbShapes ==
    {Db(TRUE, FALSE, <<>>, FALSE, <<>>), Db(FALSE, TRUE, <<>>, FALSE, <<>>),
     Db(FALSE, FALSE, <<>>, FALSE, <<>>)}
    \cup {Db(FALSE, FALSE, t, TRUE, <<>>) : t \in TableLists}
    \cup {Db(FALSE, FALSE, t, FALSE, rows) :
            t \in TableLists, rows \in {rs \in RowSeqs : Len(rs) <= 1}}
    \cup {Db(FALSE, FALSE, t, FALSE, rows) :
            t \in {<<"NOTE_TB">>, <<"mimi_notes">>}, rows \in RowSeqs}

FieldSeqs == SeqsUpTo(Captures, MaxFields)

JsonItems ==
    {JsonItem(has, id, updatedAt, 7, "1970-01-01T00:00:00.000Z") :
        has \in {NativeKeys, NativeKeys \ {"id"}, NativeKeys \ {"updatedAt"},
                 NativeKeys \ OptionalKeys, {"content"}, {}},
        id \in {"7", "x"}, updatedAt \in {1}}
    \cup {JsonItem(has, "7", 1, 7, created_at) :
        has \in {LegacyKeys, LegacyKeys \ {"note_id", "created_at"}},
        created_at \in {"1970-01-01T00:00:00.000Z", "not a date"}}
    \* note_id: null, and no created_at
    \cup {JsonItem(LegacyKeys \ {"created_at"}, "7", 1, 0, "")}
    \cup {JsonPrimitive("number"), JsonPrimitive("null")}

JsonShapes ==
    {Json(TRUE, FALSE, <<>>)}
    \cup {Json(TRUE, TRUE, items) : items \in SeqsUpTo(JsonItems, MaxItems)}

OtherByte == ZlibMagic + 3    \* "{", a first byte that is neither 0x78 nor "S"

SmallContents ==
    {EmptyContent}
    \cup {Content(size, first, FALSE, <<>>, NotADb, NotJson) :
            size \in 1..(ProbeMinLength + 1), first \in {ZlibMagic, OtherByte}}

TextContents ==
    {Content(BigSize, first, FALSE, fields, NotADb, NotJson) :
        first \in {ZlibMagic, OtherByte}, fields \in FieldSeqs}

DbContents ==
    {Content(BigSize, 83, TRUE, fields, db, NotJson) :
        fields \in {<<>>, <<"hello">>}, db \in DbShapes}

JsonContents ==
    {Content(IF json.items = <<>> THEN 2 ELSE BigSize, 91, FALSE, <<>>, NotADb, json) :
        json \in JsonShapes}

\* a zlib stream: its own bytes start with 0x78 and hold no header
ZlibContents ==
    {Content(BigSize, ZlibMagic, FALSE, fields, NotADb, NotJson) :
        fields \in {<<>>, <<"hello">>}}

Buffers ==
    {Plain(c) : c \in SmallContents \cup TextContents \cup DbContents \cup JsonContents}
    \cup {Buffer(raw, TRUE, inner) :
            raw \in ZlibContents,
            inner \in {c \in TextContents : c.first # ZlibMagic}
                      \cup {c \in DbContents : Len(c.db.rows) <= 1 /\ Len(c.db.tables) <= 1}}

File(name, buffer) == [name |-> name, buffer |-> buffer]

\* buffers with at most one row, one element and one match
SmallBuffers ==
    {b \in Buffers :
        /\ Len(b.raw.fields) <= 1 /\ Len(b.inner.fields) <= 1
        /\ Len(b.raw.db.rows) <= 1 /\ Len(b.raw.json.items) <= 1}

\* every name with the small buffers, the two main names with all of them
Files ==
    {File(name, buffer) : name \in FileNames, buffer \in SmallBuffers}
    \cup {File(name, buffer) : name \in {"a.json", "a.mimibk"}, buffer \in Buffers}

\* the clock starts after every date a backup holds and never runs backwards
ClockStart == MaxTime + MaxItems + 1

ClockLength == IF MaxRows >= MaxFields /\ MaxRows >= MaxItems THEN MaxRows
               ELSE IF MaxFields >= MaxItems THEN MaxFields ELSE MaxItems

Clocks ==
    {c \in [1..ClockLength -> ClockStart..(ClockStart + MaxTick)] :
        \A i, j \in 1..ClockLength : i <= j => c[i] <= c[j]}

NoFile == File("", Plain(EmptyContent))

NoClock == [k \in 1..ClockLength |-> ClockStart]

\* the collection the restore meets: one note no backup mentions, one with
\* the id the backups use
InitialCollections ==
    {<<Note("k", "kept", 0, 1, FALSE), Note("7", "old", 0, 1, FALSE)>>}

(***************************************************************************)
(* Spec: one file, imported through one of the entry points.               *)
(***************************************************************************)
Init ==
    /\ notes \in InitialCollections
    /\ before = notes
    /\ batch = <<>>
    /\ merges = 0
    /\ file \in Files
    /\ clk \in Clocks
    /\ run = Idle
    /\ http = NoExchange
    /\ wk = NoWorker

Start(entry) == [Idle EXCEPT !.entry = entry]

\* the RESTORE branch with `if (!success) return` missing: a failed import
\* sets the collection from a message that carries no notes
RestoredUnguarded(r) ==
    /\ run' = r
    /\ before' = notes
    /\ batch' = r.notes
    /\ notes' = IF r.ok THEN Merge(notes, r.notes) ELSE <<>>
    /\ UNCHANGED <<merges, file, clk, wk, http>>

\* what setNotes(merge) leaves after an import: untouched when it failed
Restored(r) ==
    /\ run' = r
    /\ before' = notes
    /\ batch' = r.notes
    /\ notes' = IF r.ok THEN Merge(notes, r.notes) ELSE notes
    /\ UNCHANGED <<merges, file, clk, wk, http>>

\* what setNotes(importedNotes) leaves after an import
Replaced(r) ==
    /\ run' = r
    /\ before' = notes
    /\ batch' = r.notes
    /\ notes' = IF r.ok THEN r.notes ELSE notes
    /\ UNCHANGED <<merges, file, clk, wk, http>>

\* what an import that touches no collection leaves
Converted(r) ==
    /\ run' = r
    /\ UNCHANGED <<notes, before, batch, merges, file, clk, wk, http>>

\* part_003: proceedWithRestore, the worker's RESTORE, worker.onmessage
WorkerRestore ==
    /\ run.entry = "idle"
    /\ Restored(WorkerParse(Start("worker-restore"), file, clk))

\* part_003: handleConvert, the worker's CONVERT
WorkerConvert ==
    /\ run.entry = "idle"
    /\ Converted(ParseMimiNoteBackup(Start("worker-convert"), file.buffer, clk))

\* src/src/Settings.tsx: proceedWithRestore
SettingsRestore ==
    /\ run.entry = "idle"
    /\ Restored(SettingsParse(Start("settings-restore"), file, clk))

\* src/src/App.tsx: proceedWithRestore
AppRestore ==
    /\ run.entry = "idle"
    /\ Restored(AppParse(Start("app-restore"), file, clk))

\* src/App.tsx: proceedWithRestore, reader.onload
RootRestore ==
    /\ run.entry = "idle"
    /\ Replaced(RootJsonStage(Start("root-restore"), file.buffer.raw, clk))

\* part_001: proceedWithRestore, reader.onload
LegacyRestore ==
    /\ run.entry = "idle"
    /\ Replaced(LegacyJsonStage(Start("legacy-restore"), file.buffer.raw, clk))

\* mimibk-converter: fetch, a POST with a file
ConverterPost ==
    /\ run.entry = "idle"
    /\ Converted(ConverterConvert(Start("converter"), file.buffer))

Next ==
    \/ WorkerRestore
    \/ WorkerConvert
    \/ SettingsRestore
    \/ AppRestore
    \/ LegacyRestore
    \/ RootRestore
    \/ ConverterPost

Spec == Init /\ [][Next]_vars

(***************************************************************************)
(* SpecMerge: the merge as a pure function of an existing collection and   *)
(* an imported batch, applied once and then once more with the same batch. *)
(***************************************************************************)
ExistingCollections ==
    {e \in SeqsUpTo(MergeNotes, Cardinality(MergeIds)) : UniqueIds(e)}

InitMerge ==
    /\ notes \in ExistingCollections
    /\ before = notes
    /\ batch = <<>>
    /\ merges = 0
    /\ file = NoFile
    /\ clk = NoClock
    /\ run = Idle
    /\ http = NoExchange
    /\ wk = NoWorker

\* the RESTORE branch of worker.onmessage, with the worker's notes = imported
MergeImport(imported) ==
    /\ merges = 0
    /\ before' = notes
    /\ batch' = imported
    /\ notes' = Merge(notes, imported)
    /\ merges' = 1
    /\ UNCHANGED <<file, clk, run, wk, http>>

\* the same backup restored a second time
MergeAgain ==
    /\ merges = 1
    /\ before' = notes
    /\ notes' = Merge(notes, batch)
    /\ merges' = 2
    /\ UNCHANGED <<batch, file, clk, run, wk, http>>

NextMerge ==
    \/ \E imported \in SeqsUpTo(MergeNotes, MaxBatch) : MergeImport(imported)
    \/ MergeAgain

SpecMerge == InitMerge /\ [][NextMerge]_vars

(***************************************************************************)
(* Claims about the merge.                                                 *)
(***************************************************************************)
\* the records the collection holds for an id
HeldFor(coll, id) == {coll[i] : i \in {j \in DOMAIN coll : coll[j].id = id}}

\* some imported note with this id would win against the existing note
SomeImportWins(imported, ex) ==
    \E k \in DOMAIN imported :
        imported[k].id = ex.id /\ GeqJS(imported[k].updatedAt, ex.updatedAt)

MaxImported(imported, id) ==
    CHOOSE u \in 0..MaxTime + 1 :
        /\ \E k \in DOMAIN imported : imported[k].id = id /\ imported[k].updatedAt = u
        /\ \A k \in DOMAIN imported :
            imported[k].id = id => ~LtJS(u, imported[k].updatedAt)

\* the last imported note with this id among those with the greatest updatedAt
LastNewest(imported, id) ==
    imported[CHOOSE k \in DOMAIN imported :
        /\ imported[k].id = id
        /\ imported[k].updatedAt = MaxImported(imported, id)
        /\ \A l \in DOMAIN imported :
            (l > k /\ imported[l].id = id)
            => imported[l].updatedAt # MaxImported(imported, id)]

RECURSIVE SeqToBag(_)
SeqToBag(s) ==
    IF s = <<>> THEN EmptyBag ELSE SetToBag({Head(s)}) (+) SeqToBag(Tail(s))

\* C3: merging the same batch a second time leaves the collection as the
\* first merge left it: the same records, one per id, whatever their order.
C3_IdempotentMerge ==
    merges = 2 =>
        /\ SeqToBag(notes) = SeqToBag(before)
        /\ UniqueIds(notes)

C3_Witness ==
    /\ merges = 2
    /\ \E i, k \in DOMAIN batch :
        /\ i # k
        /\ batch[i].id = batch[k].id
        /\ batch[i].content # batch[k].content
    /\ \E j \in DOMAIN before : \E i \in DOMAIN batch : batch[i].id = before[j].id
    /\ notes = before

(***************************************************************************)
(* Properties of an import                                                 *)
(***************************************************************************)
RestoreEntries ==
    {"worker-restore", "settings-restore", "app-restore", "legacy-restore", "root-restore"}

\* the entry points that go through parseFile
DispatchEntries == {"worker-restore", "settings-restore"}

BatchIds == {batch[i].id : i \in DOMAIN batch}

IsFinite(x) == x \notin {NaN, Undefined, JsonNull}

\* a capture that survives the fallback's test: it unescapes to non-blank text
NonBlank(c) == Unescape(c).ok /\ Unescape(c).s # "" /\ Trim(Unescape(c).s) # ""

HasNonBlankField(bytes) == \E k \in DOMAIN bytes.fields : NonBlank(bytes.fields[k])

IsMimibk == EndsWith(ToLowerCase(file.name), ".mimibk")

IsJsonName == EndsWith(ToLowerCase(file.name), ".json")

IsBinaryName ==
    \/ EndsWith(ToLowerCase(file.name), ".mimibk")
    \/ EndsWith(ToLowerCase(file.name), ".db")

\* the names the dispatcher is said to send to the header check
IsStatedBinaryName == ~IsJsonName

\* C4: after a successful restore every note that was in the collection
\* before it, and whose id is not in the imported batch, is still in the
\* collection with every field unchanged.
C4_ExistingNotesKept ==
    (run.entry \in RestoreEntries /\ run.ok) =>
        \A i \in DOMAIN before :
            before[i].id \notin BatchIds =>
                \E j \in DOMAIN notes : notes[j] = before[i]

\* C5: a .mimibk input whose bytes after the probe lack the SQLite header
\* but hold a "text" field with non-blank content is imported by text
\* extraction into a non-empty list, whether or not the probe inflated it.
C5_FallbackChain ==
    (/\ run.entry \in DispatchEntries
     /\ IsMimibk
     /\ run.probeRan
     /\ ~HasSQLiteHeader(run.bytes)
     /\ HasNonBlankField(run.bytes)) =>
        (run.ok /\ run.strategy = "text" /\ run.notes # <<>>)

\* C6: the probe never fails the import.  A buffer of length <= 2, or one
\* whose first byte is not 0x78, goes on unchanged and inflate is not tried;
\* when inflate is tried and throws, nothing is raised and the later stages
\* get the original bytes.
C6_ProbeNeverFails ==
    run.probeRan =>
        /\ (file.buffer.raw.size <= ProbeMinLength \/ file.buffer.raw.first # ZlibMagic)
              => (~run.inflateTried /\ run.bytes = file.buffer.raw)
        /\ (run.inflateTried /\ ~file.buffer.inflates)
              => (run.error # ErrInflate /\ run.bytes = file.buffer.raw)
        /\ (file.buffer.raw.first = ZlibMagic /\ file.buffer.raw.size > ProbeMinLength)
              => run.inflateTried

C6_Witness ==
    /\ run.entry = "worker-convert"
    /\ run.inflateTried
    /\ ~file.buffer.inflates
    /\ run.headerChecked
    /\ run.bytes = file.buffer.raw

\* C7: once the database has been opened, the handle is closed by the time
\* the database strategy hands control back, on every path.
C7_HandleReleased == (run.done /\ run.dbOpened) => run.dbClosed

\* C8: every note an import returns has finite createdAt and updatedAt.
C8_FiniteTimestamps ==
    (run.done /\ run.ok) =>
        \A k \in DOMAIN run.notes :
            IsFinite(run.notes[k].createdAt) /\ IsFinite(run.notes[k].updatedAt)

\* C9: no two notes of the list an import returns have the same id.
C9_UniqueIdsPerBatch == (run.done /\ run.ok) => UniqueIds(run.notes)

IsEmptyArray == file.buffer.raw.json = Json(TRUE, TRUE, <<>>)

\* C11: importing a .json file whose content is the array [] succeeds,
\* yields the empty note list and raises no error.
C11_EmptyArrayImport ==
    (run.done /\ run.entry \in RestoreEntries /\ IsJsonName /\ IsEmptyArray) =>
        (run.ok /\ run.notes = <<>> /\ run.error = "")

\* the entry points that run a database strategy of the app
DatabaseEntries == {"worker-restore", "settings-restore", "worker-convert", "app-restore"}

\* the query for the notes table found one
TableSelected ==
    IF run.entry = "app-restore"
    THEN AppTables(run.bytes.db.tables) # <<>> /\ AppTables(run.bytes.db.tables)[1] # ""
    ELSE run.bytes.db.tables # <<>> /\ SelectTable(run.bytes.db.tables) # ""

\* the database strategy opened a database whose selected table has no row
EmptyTableCase ==
    /\ run.done
    /\ run.entry \in DatabaseEntries
    /\ run.dbOpened
    /\ HasSQLiteHeader(run.bytes)
    /\ ~run.bytes.db.tablesThrows
    /\ TableSelected
    /\ ~run.bytes.db.rowsThrows
    /\ run.bytes.db.rows = <<>>

\* C12: when the buffer has the SQLite header and the selected notes table
\* has zero rows, the database strategy returns the empty list, raises no
\* error and the text-extraction fallback does not run.
C12_EmptyNotesTable ==
    EmptyTableCase =>
        (/\ run.ok /\ run.notes = <<>> /\ run.error = ""
         /\ run.strategy = "database" /\ ~run.textRan)

C12_Witness ==
    /\ EmptyTableCase
    /\ run.entry = "worker-restore"
    /\ run.ok
    /\ HasNonBlankField(file.buffer.raw)

(***************************************************************************)
(* SpecBackup: the collection is exported by handleBackup and the file is  *)
(* restored.                                                               *)
(***************************************************************************)
\* JSON.parse(JSON.stringify(note)): an undefined value drops its key, NaN
\* becomes null
ExportedItem(note) ==
    [kind |-> "object",
     has |-> {"isPinned"}
             \cup (IF note.id # UndefinedText THEN {"id"} ELSE {})
             \cup (IF note.content # UndefinedText THEN {"content"} ELSE {})
             \cup (IF note.createdAt # Undefined THEN {"createdAt"} ELSE {})
             \cup (IF note.updatedAt # Undefined THEN {"updatedAt"} ELSE {})
             \cup (IF note.color # UndefinedText THEN {"color"} ELSE {})
             \cup (IF note.font # UndefinedText THEN {"font"} ELSE {})
             \cup (IF note.fontSize # UndefinedText THEN {"fontSize"} ELSE {}),
     id |-> note.id, content |-> note.content,
     createdAt |-> IF IsNaN(note.createdAt) THEN JsonNull ELSE note.createdAt,
     updatedAt |-> IF IsNaN(note.updatedAt) THEN JsonNull ELSE note.updatedAt,
     isPinned |-> note.isPinned, color |-> note.color, font |-> note.font,
     fontSize |-> note.fontSize,
     note_id |-> 0, text |-> "", created_at |-> "", updated_at |-> "", pinned |-> FALSE]

\* what JSON.parse makes of JSON.stringify(notes, null, 2)
BackupJson(collection) ==
    Json(TRUE, TRUE, [k \in DOMAIN collection |-> ExportedItem(collection[k])])

\* the downloaded file: "[]" for an empty collection
BackupFile(collection) ==
    File("a.json",
         Plain(Content(IF collection = <<>> THEN 2 ELSE BigSize, 91, FALSE, <<>>,
                       NotADb, BackupJson(collection))))

\* notes a collection holds: written in the app, or imported from a backup
\* (a date of 1970-01-01 gives 0, an unparseable one NaN)
BackupNotes ==
    {Note(i, c, createdAt, 1, p) :
        i \in MergeIds, c \in {"a", ""}, createdAt \in {0, 1, NaN}, p \in BOOLEAN}
    \cup {[Note("x", "a", 1, 1, TRUE) EXCEPT !.color = "text-rose-500",
                                             !.font = "font-serif",
                                             !.fontSize = "text-sm"]}

InitBackup ==
    /\ notes \in SeqsUpTo(BackupNotes, MaxBatch)
    /\ before = notes
    /\ batch = <<>>
    /\ merges = 0
    /\ file = NoFile
    /\ clk = NoClock
    /\ run = Idle
    /\ http = NoExchange
    /\ wk = NoWorker

\* handleBackup
HandleBackup ==
    /\ run.entry = "idle"
    /\ file = NoFile
    /\ file' = BackupFile(notes)
    /\ UNCHANGED <<notes, before, batch, merges, clk, run, wk, http>>

\* the backup file is restored through one of the restore entry points
RestoreBackup ==
    /\ file # NoFile
    /\ \/ WorkerRestore
       \/ SettingsRestore
       \/ AppRestore
       \/ LegacyRestore
       \/ RootRestore

NextBackup ==
    \/ HandleBackup
    \/ RestoreBackup

SpecBackup == InitBackup /\ [][NextBackup]_vars

\* the entry points with the JSON strategy of the merging app
JsonEntries == {"worker-restore", "settings-restore", "app-restore"}

\* C13: a note list serialised by the backup export and imported through
\* the JSON strategy comes back equal, note for note and field for field.
C13_JsonRoundTrip ==
    (run.done /\ run.entry \in JsonEntries) => (run.ok /\ run.notes = before)

\* the first element has not the shape the entry point asks of it
LacksShape(first) ==
    IF run.entry \in JsonEntries
    THEN "content" \notin first.has
    ELSE /\ ~({"id", "content", "createdAt"} \subseteq first.has)
         /\ ~({"note_id", "text"} \subseteq first.has)

\* the JSON strategy ran on a root that is no array, or on a non-empty
\* array whose first element lacks the shape
InvalidShapeCase ==
    /\ run.done
    /\ run.entry \in RestoreEntries
    /\ run.strategy = "json"
    /\ file.buffer.raw.json.parses
    /\ \/ ~file.buffer.raw.json.isArray
       \/ /\ file.buffer.raw.json.items # <<>>
          /\ LacksShape(file.buffer.raw.json.items[1])

\* the errors thrown for a JSON file of the wrong format
InvalidFormatErrors == {ErrInvalidJson, ErrNotArray, ErrUnsupportedBackup}

\* C14: when the parsed root is not an array, or the array is non-empty and
\* its first element lacks the required shape, the JSON strategy fails with
\* the invalid-format error and returns no notes, and neither the database
\* nor the text-extraction strategy is tried.
C14_InvalidJsonShape ==
    InvalidShapeCase =>
        (/\ ~run.ok /\ run.notes = <<>>
         /\ run.error \in InvalidFormatErrors
         /\ ~run.probeRan /\ ~run.headerChecked /\ ~run.dbOpened /\ ~run.textRan)

\* C15: whenever an import fails, at whatever stage, no note list is
\* delivered and the collection after the call is the collection before it.
C15_AllOrNothing ==
    (run.done /\ ~run.ok) =>
        (/\ run.notes = <<>>
         /\ batch = <<>>
         /\ notes = before)

\* a database error followed by a failed text extraction, in a restore
C15_Witness ==
    /\ run.done /\ ~run.ok
    /\ run.entry = "worker-restore"
    /\ run.dbOpened /\ run.textRan
    /\ run.error = ErrDbFailed(ErrDbQuery)
    /\ notes = before /\ before # <<>>

\* the entry points of part_003, part_004 and Settings.tsx
CheckedEntries == {"worker-restore", "settings-restore", "worker-convert"}

\* C16: an import of a zero-length buffer fails with the empty-input error
\* before the probe, the dispatch or any strategy is tried, whatever the
\* name of the file.
C16_EmptyInput ==
    (run.done /\ run.entry \in CheckedEntries /\ file.buffer.raw.size = 0) =>
        (/\ ~run.ok /\ run.error = ErrEmpty /\ run.strategy = "none"
         /\ ~run.probeRan /\ ~run.headerChecked /\ ~run.dbOpened /\ ~run.textRan)

C16_Witness ==
    /\ run.done
    /\ run.entry = "worker-restore"
    /\ file.name = "a.json"
    /\ file.buffer.raw.size = 0
    /\ run.error = ErrEmpty

\* the parsed array of the file, when the JSON strategy ran on an array of
\* objects
ParsedItems == file.buffer.raw.json.items

JsonArrayCase ==
    /\ run.done
    /\ run.entry \in RestoreEntries
    /\ run.strategy = "json"
    /\ file.buffer.raw.json.parses
    /\ file.buffer.raw.json.isArray
    /\ ParsedItems # <<>>
    /\ \A k \in DOMAIN ParsedItems : ParsedItems[k].kind = "object"

HasLegacyShape(n) ==
    /\ {"note_id", "text"} \subseteq n.has
    /\ ~({"id", "content", "createdAt"} \subseteq n.has)

HasNoShape(n) == ~({"note_id", "text"} \subseteq n.has) /\ "content" \notin n.has

\* the note is the legacy record: id from note_id, content from text,
\* isPinned from pinned, and the default colour, font and font size
MappedFromLegacy(note, n) ==
    /\ ("note_id" \in n.has /\ n.note_id # 0) => note.id = ToString(n.note_id)
    /\ ("text" \in n.has) => note.content = n.text
    /\ note.isPinned = ("pinned" \in n.has /\ n.pinned)
    /\ note.color = DefaultColor
    /\ note.font = DefaultFont
    /\ note.fontSize = DefaultFontSize

\* C17: a JSON array whose first element has note_id and text, and not the
\* native keys, is accepted and each element is mapped to a note with id
\* from note_id, content from text, isPinned from pinned and the default
\* colour, font and font size; an array whose first element has neither
\* shape is rejected.
C17_LegacyVariant ==
    JsonArrayCase =>
        /\ HasLegacyShape(ParsedItems[1]) =>
              (/\ run.ok
               /\ Len(run.notes) = Len(ParsedItems)
               /\ \A k \in DOMAIN ParsedItems :
                     MappedFromLegacy(run.notes[k], ParsedItems[k]))
        /\ HasNoShape(ParsedItems[1]) => (~run.ok /\ run.notes = <<>>)

\* the field holds a value: it is neither undefined nor null
TextPresent(x) == x # UndefinedText

NumberPresent(x) == x \notin {Undefined, JsonNull}

IsComplete(note) ==
    /\ TextPresent(note.id) /\ TextPresent(note.content)
    /\ NumberPresent(note.createdAt) /\ NumberPresent(note.updatedAt)
    /\ note.isPinned \in BOOLEAN
    /\ TextPresent(note.color) /\ TextPresent(note.font) /\ TextPresent(note.fontSize)

\* C18: every note the JSON strategy returns has its eight fields present,
\* none of them null or undefined, for every element of the array.
C18_CompleteRecords ==
    (run.done /\ run.ok /\ run.strategy = "json" /\ run.entry \in RestoreEntries) =>
        \A k \in DOMAIN run.notes : IsComplete(run.notes[k])

(***************************************************************************)
(* SpecWorker: restore and convert through the worker of part_003.         *)
(***************************************************************************)
\* Math.round(Math.min((i + chunkSize) / n, 1) * 100)
ProgressPercent(i, chunkSize, n) ==
    IF i + chunkSize >= n THEN 100
    ELSE (200 * (i + chunkSize) + n) \div (2 * n)

\* the progress report with the notes mapped so far sent along
ProgressMessagesWithNotes(r, mobile) ==
    IF mobile /\ r.ok /\ r.strategy = "database"
    THEN [j \in 1..((Len(r.notes) + ChunkSizeMobile - 1) \div ChunkSizeMobile) |->
            [ProgressMessage(ProgressPercent((j - 1) * ChunkSizeMobile,
                                             ChunkSizeMobile, Len(r.notes)))
                EXCEPT !.keys = {"type", "progress", "notes"}, !.notes = r.notes]]
    ELSE <<>>

\* the messages the row loop posts: one for each chunk, on a mobile browser
ProgressMessages(r, mobile) ==
    IF mobile /\ r.ok /\ r.strategy = "database"
    THEN [j \in 1..((Len(r.notes) + ChunkSizeMobile - 1) \div ChunkSizeMobile) |->
            ProgressMessage(ProgressPercent((j - 1) * ChunkSizeMobile,
                                            ChunkSizeMobile, Len(r.notes)))]
    ELSE <<>>

\* the try block of self.onmessage
WorkerOutcome(msg, clock) ==
    IF msg.type = "RESTORE"
    THEN ParseFile(Start("worker-restore"), File(msg.name, msg.buffer), clock)
    ELSE ParseMimiNoteBackup(Start("worker-convert"), msg.buffer, clock)

\* the message that ends self.onmessage
WorkerReply(msg, r) ==
    IF r.ok THEN SuccessReply(msg.type, r.notes) ELSE FailureReply(msg.type, r.error)

\* handleRestore and handleDrop let these names through
IsSupportedName(name) ==
    \/ EndsWith(ToLowerCase(name), ".json")
    \/ EndsWith(ToLowerCase(name), ".mimibk")
    \/ EndsWith(ToLowerCase(name), ".db")

WorkerFiles ==
    {File(name, buffer) : name \in {"a.json", "a.mimibk", "a.sqlite"},
                          buffer \in SmallBuffers}

InitWorker ==
    /\ notes \in InitialCollections
    /\ before = notes
    /\ batch = <<>>
    /\ merges = 0
    /\ file \in WorkerFiles
    /\ clk \in Clocks
    /\ run = Idle
    /\ http = NoExchange
    /\ \E mobile \in BOOLEAN : wk = [NoWorker EXCEPT !.mobile = mobile]

\* handleRestore, handleDrop: a name that is not supported gets a toast; the
\* progress overlay covers the page while showProgress
RejectFile ==
    /\ wk.posted < MaxRequests
    /\ ~wk.showProgress
    /\ ~IsSupportedName(file.name)
    /\ wk' = [wk EXCEPT !.toast = ErrUnsupported, !.posted = @ + 1]
    /\ UNCHANGED <<notes, before, batch, merges, file, clk, run, http>>

\* proceedWithRestore, once the file is confirmed: the button is disabled
\* while isProcessing, a drop on <main> is not, unless the overlay covers it
ProceedWithRestore ==
    /\ wk.posted < MaxRequests
    /\ ~wk.showProgress
    /\ IsSupportedName(file.name)
    /\ wk' = IF file.buffer.raw.size = 0
             THEN [wk EXCEPT !.isProcessing = FALSE, !.showProgress = FALSE,
                             !.toast = ErrEmpty, !.posted = @ + 1]
             ELSE [wk EXCEPT !.isProcessing = TRUE, !.showProgress = TRUE,
                             !.toast = "parsing", !.posted = @ + 1,
                             !.inbox = Append(@, Request("RESTORE", file)),
                             !.crossedIn = Append(@, Request("RESTORE", file))]
    /\ UNCHANGED <<notes, before, batch, merges, file, clk, run, http>>

\* handleConvert: the button is disabled while isProcessing
HandleConvert ==
    /\ wk.posted < MaxRequests
    /\ ~wk.isProcessing
    /\ wk' = [wk EXCEPT !.isProcessing = TRUE, !.toast = "converting",
                        !.posted = @ + 1,
                        !.inbox = Append(@, Request("CONVERT", file)),
                        !.crossedIn = Append(@, Request("CONVERT", file))]
    /\ UNCHANGED <<notes, before, batch, merges, file, clk, run, http>>

\* the result posted before the row loop's progress reports
WorkerOnMessageResultFirst ==
    /\ wk.inbox # <<>>
    /\ LET msg == Head(wk.inbox)
           r == WorkerOutcome(msg, clk)
           posts == <<WorkerReply(msg, r)>> \o ProgressMessages(r, wk.mobile)
       IN  /\ run' = r
           /\ wk' = [wk EXCEPT !.inbox = Tail(@), !.outbox = @ \o posts,
                               !.crossedOut = @ \o posts]
    /\ UNCHANGED <<notes, before, batch, merges, file, clk, http>>

\* self.onmessage
WorkerOnMessage ==
    /\ wk.inbox # <<>>
    /\ LET msg == Head(wk.inbox)
           r == WorkerOutcome(msg, clk)
           posts == ProgressMessages(r, wk.mobile) \o <<WorkerReply(msg, r)>>
       IN  /\ run' = r
           /\ wk' = [wk EXCEPT !.inbox = Tail(@), !.outbox = @ \o posts,
                               !.crossedOut = @ \o posts]
    /\ UNCHANGED <<notes, before, batch, merges, file, clk, http>>

\* worker.onmessage
MainOnMessage ==
    /\ wk.outbox # <<>>
    /\ LET m == Head(wk.outbox)
           ended == [wk EXCEPT !.outbox = Tail(@), !.isProcessing = FALSE,
                               !.showProgress = FALSE, !.importProgress = 0]
       IN  IF "progress" \in m.keys
           THEN /\ wk' = [wk EXCEPT !.outbox = Tail(@), !.importProgress = m.progress]
                /\ UNCHANGED <<notes, before, batch>>
           ELSE IF ~m.success
           THEN /\ wk' = [ended EXCEPT !.toast = m.error]
                /\ UNCHANGED <<notes, before, batch>>
           ELSE IF m.type = "RESTORE"
           THEN /\ wk' = [ended EXCEPT !.toast = "restored"]
                /\ before' = notes
                /\ batch' = m.notes
                /\ notes' = Merge(notes, m.notes)
           ELSE /\ wk' = [ended EXCEPT !.toast = IF m.notes = <<>> THEN "nothing to convert"
                                                 ELSE "converted"]
                /\ UNCHANGED <<notes, before, batch>>
    /\ UNCHANGED <<merges, file, clk, run, http>>

NextWorker ==
    \/ RejectFile
    \/ ProceedWithRestore
    \/ HandleConvert
    \/ WorkerOnMessage
    \/ MainOnMessage

SpecWorker == InitWorker /\ [][NextWorker]_vars

(***************************************************************************)
(* C19  Worker boundary traffic.                                           *)
(***************************************************************************)
IsRequest(m) ==
    /\ m.keys = {"type", "buffer", "name"}
    /\ m.type \in {"RESTORE", "CONVERT"}

IsReply(m) ==
    \/ m.keys = {"success", "type", "notes"} /\ m.success
    \/ m.keys = {"success", "type", "error"} /\ ~m.success

IsProgress(m) ==
    /\ m.keys = {"type", "progress"}
    /\ m.type = "PROGRESS"
    /\ m.progress \in 1..100

Crossed(log) == {log[i] : i \in 1..Len(log)}

Replies(log) == {i \in 1..Len(log) : IsReply(log[i])}

\* C19 as stated: the main thread sends only requests that carry the input
\* buffer, and every message the worker sends back is a result, holding
\* `success` and either `notes` or `error`; nothing else crosses the boundary.
C19_OnlyResultsComeBack ==
    /\ \A m \in Crossed(wk.crossedIn) : "buffer" \in m.keys
    /\ \A m \in Crossed(wk.crossedOut) :
         /\ "success" \in m.keys
         /\ ("notes" \in m.keys) # ("error" \in m.keys)

\* C19 amended: the main thread sends only {type, buffer, name} requests of
\* type RESTORE or CONVERT; the worker sends back exactly one result for each
\* request it handled, {success: true, type, notes} or {success: false, type,
\* error}, and before it, on a mobile browser only, {type: 'PROGRESS',
\* progress} reports; nothing else crosses the boundary.
C19_WorkerBoundaryTraffic ==
    /\ \A m \in Crossed(wk.crossedIn) : IsRequest(m)
    /\ \A m \in Crossed(wk.crossedOut) : IsReply(m) \/ IsProgress(m)
    /\ Cardinality(Replies(wk.crossedOut)) = Len(wk.crossedIn) - Len(wk.inbox)
    /\ (\E m \in Crossed(wk.crossedOut) : IsProgress(m)) => wk.mobile
    /\ wk.crossedOut # <<>> => IsReply(wk.crossedOut[Len(wk.crossedOut)])

\* a database import on a mobile browser was answered: a progress report and
\* its result have both crossed, and the main thread has taken them in
C19_Witness ==
    /\ \E i \in 1..Len(wk.crossedOut) :
         /\ IsProgress(wk.crossedOut[i])
         /\ i < Len(wk.crossedOut)
         /\ IsReply(wk.crossedOut[i + 1])
         /\ wk.crossedOut[i + 1].success
    /\ wk.outbox = <<>>
    /\ wk.crossedIn # <<>>

(***************************************************************************)
(* C20  Merge key set.                                                     *)
(***************************************************************************)
IdsOf(coll) == {coll[i].id : i \in DOMAIN coll}

\* C20: after a restore merge the collection holds exactly one note per id,
\* its ids are exactly the ids of the collection before the merge together
\* with the ids of the imported batch, and every imported id the collection
\* did not have is now held by a note of the batch.
C20_MergeKeySet ==
    merges >= 1 =>
        /\ UniqueIds(notes)
        /\ IdsOf(notes) = IdsOf(before) \cup IdsOf(batch)
        /\ \A id \in IdsOf(batch) \ IdsOf(before) :
             /\ HeldFor(notes, id) # {}
             /\ HeldFor(notes, id) \subseteq HeldFor(batch, id)

\* a batch that brings a new id twice next to an id the collection has
C20_Witness ==
    /\ merges = 1
    /\ IdsOf(before) = {"x"}
    /\ Len(batch) = MaxBatch
    /\ \A i \in DOMAIN batch : batch[i].id = "y"
    /\ Len(notes) = 2

(***************************************************************************)
(* C21  Text-extraction ordering.                                          *)
(***************************************************************************)
\* a match whose capture unescapes to text that is not blank
Survives(c) == Unescape(c).ok /\ Unescape(c).s # "" /\ Trim(Unescape(c).s) # ""

Survivors(fields) == {k \in DOMAIN fields : Survives(fields[k])}

\* the position of the j-th surviving match
SurvivorAt(fields, j) ==
    CHOOSE k \in Survivors(fields) :
        Cardinality({h \in Survivors(fields) : h < k}) = j - 1

TextExtracted == run # Idle /\ run.ok /\ run.strategy = "text"

\* C21: the notes of a text extraction have strictly increasing timestamps in
\* match order, ids that are those timestamps as strings and so distinct,
\* createdAt = updatedAt, and the j-th note carries the clock read at its
\* match plus j - 1: matches that produce no note use no counter value.
C21_TextExtractionOrdering ==
    TextExtracted =>
        LET fields == run.textOn.fields
        IN  /\ Len(run.notes) = Cardinality(Survivors(fields))
            /\ \A j \in DOMAIN run.notes :
                 /\ run.notes[j].createdAt = run.notes[j].updatedAt
                 /\ run.notes[j].id = StringOfNumber(run.notes[j].createdAt)
                 /\ run.notes[j].createdAt = clk[SurvivorAt(fields, j)] + (j - 1)
            /\ \A j, h \in DOMAIN run.notes :
                 j < h => run.notes[j].createdAt < run.notes[h].createdAt
            /\ UniqueIds(run.notes)

\* two fragments survive, both read at one clock value
C21_Witness ==
    /\ TextExtracted
    /\ Len(run.notes) = 2
    /\ clk[1] = clk[2]
    /\ run.notes[1].createdAt + 1 = run.notes[2].createdAt

(***************************************************************************)
(* C23  Notes-table selection.                                             *)
(***************************************************************************)
\* the first name of the list that has the property, 0 when none has it
FirstWith(tables, Has(_)) ==
    IF \E i \in DOMAIN tables : Has(tables[i])
    THEN CHOOSE i \in DOMAIN tables :
            Has(tables[i]) /\ \A j \in 1..(i - 1) : ~Has(tables[j])
    ELSE 0

IsCanonical(t) == ToUpperCase(t) = "NOTE_TB"

IsNoteLike(t) == IncludesNote(ToLowerCase(t))

\* the table the stated priority picks from a non-empty list
PriorityTable(tables) ==
    IF FirstWith(tables, IsCanonical) # 0 THEN tables[FirstWith(tables, IsCanonical)]
    ELSE IF FirstWith(tables, IsNoteLike) # 0 THEN tables[FirstWith(tables, IsNoteLike)]
    ELSE tables[1]

\* the table the entry point's query runs on, "" when it selects none
SelectedBy(entry, tables) ==
    IF entry = "app-restore"
    THEN (IF AppTables(tables) = <<>> THEN "" ELSE AppTables(tables)[1])
    ELSE SelectTable(tables)

\* the database strategy listed the tables and the list is not empty
SelectionCase ==
    /\ run.done
    /\ run.entry \in DatabaseEntries
    /\ run.dbOpened
    /\ ~run.bytes.db.tablesThrows
    /\ run.bytes.db.tables # <<>>

TableNotFoundRaised == run.error = ErrNoNoteTable \/ run.stageError = ErrNoNoteTable

\* C23: with a non-empty list of table names the database strategy selects
\* the canonical table (case-insensitively) wherever it stands, otherwise the
\* first table whose name contains "note", otherwise the first table; a table
\* is always selected and the table-not-found error is not raised.
C23_TableSelection ==
    SelectionCase =>
        /\ SelectedBy(run.entry, run.bytes.db.tables) = PriorityTable(run.bytes.db.tables)
        /\ ~TableNotFoundRaised

(***************************************************************************)
(* C22  Combined failure.                                                  *)
(***************************************************************************)
DatabaseErrors == {ErrNoHeader, ErrDbOpen, ErrDbQuery, ErrNoTables, ErrNoNoteTable}

\* the database stage failed and the fallback found no fragment that survives
CombinedFailureCase ==
    /\ run.done
    /\ run.textRan
    /\ Survivors(run.textOn.fields) = {}

\* C22: when the database stage fails and text extraction recovers no
\* fragment, the import fails with one error, whose message is the
\* database-failure prefix followed by the message of the database-stage
\* error; the extraction error never leaves on its own, and no note is returned.
C22_CombinedFailure ==
    CombinedFailureCase =>
        /\ ~run.ok
        /\ run.notes = <<>>
        /\ run.stageError \in DatabaseErrors
        /\ run.error = ErrDbFailed(run.stageError)

\* a query error inside an opened database, then a buffer with blank text only
C22_Witness ==
    /\ CombinedFailureCase
    /\ run.stageError = ErrDbQuery
    /\ run.dbOpened
    /\ run.dbClosed
    /\ run.error = ErrDbFailed(ErrDbQuery)

(***************************************************************************)
(* SpecReimport: one backup file restored twice in succession through one  *)
(* of the merging entry points, with no edit in between.                   *)
(***************************************************************************)
MergingEntries == {"worker-restore", "settings-restore", "app-restore"}

\* the parser behind each restore that ends in the merge
ParseBy(entry, f, clock) ==
    CASE entry = "worker-restore" -> WorkerParse(Start(entry), f, clock)
      [] entry = "settings-restore" -> SettingsParse(Start(entry), f, clock)
      [] OTHER -> AppParse(Start(entry), f, clock)

\* Math.random() in a later import: its k-th draw is a number no draw of the
\* import before gave, so an id made of it differs in its digits
SecondDraws(importedNotes, clock) ==
    [k \in DOMAIN importedNotes |->
        IF importedNotes[k].id = StringOfJittered(importedNotes[k].createdAt, k)
        THEN [importedNotes[k] EXCEPT
                !.id = StringOfJittered(importedNotes[k].createdAt, k + ClockLength)]
        ELSE IF importedNotes[k].id = StringOfJittered(clock[k], k)
        THEN [importedNotes[k] EXCEPT !.id = StringOfJittered(clock[k], k + ClockLength)]
        ELSE importedNotes[k]]

InitReimport ==
    /\ notes \in InitialCollections
    /\ before = notes
    /\ batch = <<>>
    /\ merges = 0
    /\ file \in Files
    /\ clk \in Clocks
    /\ run = Idle
    /\ http = NoExchange
    /\ wk = NoWorker

\* the file is restored
FirstRestore(entry) ==
    /\ merges = 0
    /\ LET r == ParseBy(entry, file, clk)
       IN  /\ run' = r
           /\ before' = notes
           /\ batch' = r.notes
           /\ notes' = IF r.ok THEN Merge(notes, r.notes) ELSE notes
    /\ merges' = 1
    /\ UNCHANGED <<file, clk, wk, http>>

\* the same file is restored again, the same way, at a time not before
SecondRestore(later) ==
    /\ merges = 1
    /\ later[1] >= clk[ClockLength]
    /\ LET parsed == ParseBy(run.entry, file, later)
           r == [parsed EXCEPT !.notes = SecondDraws(parsed.notes, later)]
       IN  /\ run' = r
           /\ before' = notes
           /\ batch' = r.notes
           /\ notes' = IF r.ok THEN Merge(notes, r.notes) ELSE notes
    /\ clk' = later
    /\ merges' = 2
    /\ UNCHANGED <<file, wk, http>>

NextReimport ==
    \/ \E entry \in MergingEntries : FirstRestore(entry)
    \/ \E later \in Clocks : SecondRestore(later)

SpecReimport == InitReimport /\ [][NextReimport]_vars

(***************************************************************************)
(* C24  Idempotent re-import.                                              *)
(***************************************************************************)
\* C24: after the same backup file was restored successfully twice in
\* succession, the collection equals the collection after the first restore,
\* for every supported format and also when the ids are made during import.
C24_IdempotentReimport ==
    (merges = 2 /\ run.ok) => notes = before

(***************************************************************************)
(* C25  One terminal reply per request.                                    *)
(***************************************************************************)
\* the requests self.onmessage has run for
Handled == Len(wk.crossedIn) - Len(wk.inbox)

\* the place in the log of the j-th result
NthReply(log, j) ==
    CHOOSE i \in Replies(log) : Cardinality({h \in Replies(log) : h < i}) = j - 1

\* the request a posted message belongs to: the one after the results before it
OwnerOf(log, i) == Cardinality({h \in Replies(log) : h < i}) + 1

\* C25: the worker has posted exactly one result for each request it handled,
\* the j-th result answering the j-th request with {success: true, notes} when
\* the parse returned and {success: false, error} when it threw, and every
\* PROGRESS message stands before the result of the request it belongs to.
C25_OneTerminalReply ==
    /\ Cardinality(Replies(wk.crossedOut)) = Handled
    /\ \A j \in 1..Handled :
         LET m == wk.crossedOut[NthReply(wk.crossedOut, j)]
             r == WorkerOutcome(wk.crossedIn[j], clk)
         IN  /\ m.type = wk.crossedIn[j].type
             /\ m.success = r.ok
             /\ r.ok => (m.notes = r.notes /\ ~("error" \in m.keys))
             /\ ~r.ok => (m.error = r.error /\ ~("notes" \in m.keys))
    /\ \A i \in DOMAIN wk.crossedOut :
         IsProgress(wk.crossedOut[i]) =>
            /\ OwnerOf(wk.crossedOut, i) <= Handled
            /\ WorkerOutcome(wk.crossedIn[OwnerOf(wk.crossedOut, i)], clk).strategy
                 = "database"

\* a conversion answered with progress and notes, then a restore of the same
\* file answered with an error
C25_Witness ==
    /\ Handled = 2
    /\ Len(wk.crossedOut) = 3
    /\ IsProgress(wk.crossedOut[1])
    /\ wk.crossedOut[2].success
    /\ wk.crossedOut[2].type = "CONVERT"
    /\ ~wk.crossedOut[3].success
    /\ wk.crossedOut[3].type = "RESTORE"

(***************************************************************************)
(* C27  Restore never moves a note back in time.                           *)
(***************************************************************************)
KeptIds == IdsOf(before) \cap IdsOf(notes)

\* C27: after each restore of a sequence, every id the collection held before
\* and holds after has a stored updatedAt that is greater than or equal to
\* the one stored before.
C27_NeverBackInTime ==
    merges >= 1 =>
        \A id \in KeptIds :
            \A old \in HeldFor(before, id) : \A new \in HeldFor(notes, id) :
                GeqJS(new.updatedAt, old.updatedAt)

(***************************************************************************)
(* C29  Single request in flight.                                          *)
(***************************************************************************)
\* the requests posted to the worker whose result the main thread has not
\* handled yet
Outstanding ==
    Len(wk.inbox) + Cardinality({i \in DOMAIN wk.outbox : IsReply(wk.outbox[i])})

\* C29: at most one RESTORE or CONVERT request is outstanding at any time,
\* whichever entry point posted it.
C29_SingleRequestInFlight == Outstanding <= 1

(***************************************************************************)
(* SpecConverter: one HTTP request to the mimibk-converter fetch handler.  *)
(***************************************************************************)
Methods == {"OPTIONS", "GET", "PUT", "POST"}

\* what request.formData() gives: a throw, a form with no `file` entry, a
\* form whose `file` entry is a string, a form whose `file` entry is a File
Forms == {"unreadable", "no-file", "text-field", "file"}

AllowOrigin == "Access-Control-Allow-Origin: *"

\* new Response(body, {status, headers}); the status is 200 when none is given
Response(status, headers, body, converted) ==
    [status |-> status, headers |-> headers, body |-> body, converted |-> converted]

\* the answer to the CORS preflight
PreflightResponse ==
    Response(200, {AllowOrigin, "Access-Control-Allow-Methods: POST, OPTIONS",
                   "Access-Control-Allow-Headers: Content-Type"}, "", FALSE)

\* the catch block answering without the CORS header
CaughtResponseNoCors(message) ==
    Response(500, {}, "Conversion failed: " \o message, FALSE)

\* catch (err): 'Conversion failed: ' + (err?.message || 'unknown error')
CaughtResponse(message) ==
    Response(500, {AllowOrigin}, "Conversion failed: " \o message, FALSE)

\* the handler from the file on: inflate, load sql.js, open, query, answer
ConvertResponse(buffer, sqlLoads) ==
    LET r == ConverterConvert(Start("converter"), buffer)
    IN  IF ~sqlLoads THEN CaughtResponse("sql.js did not load")
        ELSE IF ~r.ok THEN CaughtResponse(r.error)
        ELSE Response(200, {AllowOrigin, "Content-Type: application/json"},
                      "json", TRUE)

\* async fetch(request)
FetchResponse(method, form, buffer, sqlLoads) ==
    IF method = "OPTIONS" THEN PreflightResponse
    ELSE IF method # "POST"
    THEN Response(405, {AllowOrigin}, "Use POST with a .mimibk file", FALSE)
    ELSE IF form = "unreadable" THEN CaughtResponse("formData failed")
    ELSE IF form # "file"
    THEN Response(400, {AllowOrigin}, "No valid file uploaded", FALSE)
    ELSE ConvertResponse(buffer, sqlLoads)

ConverterFiles == {File("a.mimibk", buffer) : buffer \in SmallBuffers}

InitConverter ==
    /\ notes \in InitialCollections
    /\ before = notes
    /\ batch = <<>>
    /\ merges = 0
    /\ file \in ConverterFiles
    /\ clk = NoClock
    /\ run = Idle
    /\ http = NoExchange
    /\ wk = NoWorker

\* one request arrives and the handler answers it
Fetch(method, form, sqlLoads) ==
    /\ http.responses = <<>>
    /\ http' = [request |-> [method |-> method, form |-> form],
                responses |-> <<FetchResponse(method, form, file.buffer, sqlLoads)>>]
    /\ run' = IF method = "POST" /\ form = "file" /\ sqlLoads
              THEN ConverterConvert(Start("converter"), file.buffer)
              ELSE Start("converter")
    /\ UNCHANGED <<notes, before, batch, merges, file, clk, wk>>

NextConverter ==
    \E method \in Methods, form \in Forms, sqlLoads \in BOOLEAN :
        Fetch(method, form, sqlLoads)

SpecConverter == InitConverter /\ [][NextConverter]_vars

(***************************************************************************)
(* C30  Converter HTTP outcomes.                                           *)
(***************************************************************************)
Answered == http.responses # <<>>

\* C30: every request gets exactly one response: OPTIONS a success response
\* with the CORS headers and no conversion; another method than POST 405; a
\* POST whose form has no file 400; an exception while the request is read or
\* the database is loaded, opened or queried 500; a completed conversion 200
\* with a JSON body; each with Access-Control-Allow-Origin: *.
C30_ConverterOutcomes ==
    Answered =>
        LET request == http.request
            response == http.responses[1]
        IN  /\ Len(http.responses) = 1
            /\ AllowOrigin \in response.headers
            /\ request.method = "OPTIONS" =>
                 /\ response.status = 200
                 /\ response = PreflightResponse
                 /\ ~run.dbOpened /\ ~run.probeRan
            /\ ~(request.method \in {"OPTIONS", "POST"}) =>
                 (response.status = 405 /\ ~run.probeRan)
            /\ (request.method = "POST" /\ request.form \in {"no-file", "text-field"}) =>
                 (response.status = 400 /\ ~run.probeRan)
            /\ (request.method = "POST" /\ request.form = "unreadable") =>
                 response.status = 500
            /\ (request.method = "POST" /\ request.form = "file") =>
                 /\ response.status \in {200, 500}
                 /\ response.status = 200 <=>
                      (response.converted /\ run.done /\ run.ok)
                 /\ response.status = 200 =>
                      "Content-Type: application/json" \in response.headers
                 /\ (run.done /\ ~run.ok) => response.status = 500

\* a query on an opened database threw and the answer is 500 with the header
C30_Witness ==
    /\ Answered
    /\ http.request.method = "POST"
    /\ http.request.form = "file"
    /\ run.done /\ ~run.ok /\ run.dbOpened
    /\ http.responses[1].status = 500
    /\ AllowOrigin \in http.responses[1].headers

(***************************************************************************)
(* SpecLifecycle: the handlers of part_003 step by step (each await is a   *)
(* step), the Settings effect running again, and the notes changing        *)
(* meanwhile.  wk.awaiting is the promise a handler waits for, wk.atPost   *)
(* the collection as it was when the last RESTORE request was posted.      *)
(***************************************************************************)
LifecycleFiles ==
    {f \in WorkerFiles :
        /\ f.name # "a.sqlite"
        /\ ~f.buffer.inflates
        /\ f.buffer.raw.db.tables \in {<<>>, <<"NOTE_TB">>}
        /\ f.buffer.raw.first # ZlibMagic
        /\ f.buffer.raw.fields \in {<<>>, <<"hello">>}
        /\ \A k \in DOMAIN f.buffer.raw.db.rows :
             f.buffer.raw.db.rows[k]._id # SqlNull
        /\ \A k \in DOMAIN f.buffer.raw.json.items :
             /\ f.buffer.raw.json.items[k].kind = "object"
             /\ f.buffer.raw.json.items[k].has
                  \in {NativeKeys, NativeKeys \ {"updatedAt"}}}

InitLifecycle ==
    /\ notes \in InitialCollections
    /\ before = notes
    /\ batch = <<>>
    /\ merges = 0
    /\ file \in LifecycleFiles
    /\ clk = NoClock
    /\ run = Idle
    /\ http = NoExchange
    /\ \E mobile \in BOOLEAN : wk = [NoWorker EXCEPT !.mobile = mobile]

\* handleConvert up to its first await: the flag is set, the picker opens
ConvertClicked ==
    /\ wk.posted < MaxRequests
    /\ ~wk.isProcessing
    /\ wk.awaiting = ""
    /\ wk' = [wk EXCEPT !.isProcessing = TRUE, !.toast = "converting",
                        !.posted = @ + 1, !.awaiting = "convert-pick"]
    /\ UNCHANGED <<notes, before, batch, merges, file, clk, run, http>>

\* openFileWithFallback rejects with AbortError: the catch releases the flag
PickerCancelled ==
    /\ wk.awaiting = "convert-pick"
    /\ wk' = [wk EXCEPT !.isProcessing = FALSE, !.awaiting = ""]
    /\ UNCHANGED <<notes, before, batch, merges, file, clk, run, http>>

\* openFileWithFallback resolves: handleConvert goes on to read the file
PickerResolved ==
    /\ wk.awaiting = "convert-pick"
    /\ wk' = [wk EXCEPT !.awaiting = "convert-read"]
    /\ UNCHANGED <<notes, before, batch, merges, file, clk, run, http>>

\* readFileAsArrayBuffer rejects: the catch of either handler
ReadFails ==
    /\ wk.awaiting \in {"convert-read", "restore-read"}
    /\ wk' = IF wk.awaiting = "convert-read"
             THEN [wk EXCEPT !.isProcessing = FALSE, !.awaiting = "",
                             !.toast = "convert failed: read error"]
             ELSE [wk EXCEPT !.isProcessing = FALSE, !.showProgress = FALSE,
                             !.awaiting = "", !.toast = "restore failed: read error"]
    /\ UNCHANGED <<notes, before, batch, merges, file, clk, run, http>>

\* handleConvert after the read: the request is posted
ConvertPosted ==
    /\ wk.awaiting = "convert-read"
    /\ wk' = [wk EXCEPT !.awaiting = "",
                        !.inbox = Append(@, Request("CONVERT", file)),
                        !.crossedIn = Append(@, Request("CONVERT", file))]
    /\ UNCHANGED <<notes, before, batch, merges, file, clk, run, http>>

\* proceedWithRestore up to its await, from the confirm dialog
RestoreConfirmed ==
    /\ wk.posted < MaxRequests
    /\ ~wk.showProgress
    /\ wk.awaiting = ""
    /\ wk' = [wk EXCEPT !.isProcessing = TRUE, !.showProgress = TRUE,
                        !.posted = @ + 1, !.awaiting = "restore-read"]
    /\ UNCHANGED <<notes, before, batch, merges, file, clk, run, http>>

\* proceedWithRestore after the read: an empty buffer throws, else it posts
RestorePosted ==
    /\ wk.awaiting = "restore-read"
    /\ wk' = IF file.buffer.raw.size = 0
             THEN [wk EXCEPT !.isProcessing = FALSE, !.showProgress = FALSE,
                             !.awaiting = "", !.toast = ErrEmpty]
             ELSE [wk EXCEPT !.awaiting = "", !.toast = "parsing", !.atPost = notes,
                             !.inbox = Append(@, Request("RESTORE", file)),
                             !.crossedIn = Append(@, Request("RESTORE", file))]
    /\ UNCHANGED <<notes, before, batch, merges, file, clk, run, http>>

\* a dependency of the effect changed: the cleanup terminates the worker,
\* which drops what it had not handled and what it had not delivered, and
\* the effect makes a new worker
EffectRerun ==
    /\ wk.generation < MaxReruns
    /\ wk' = [wk EXCEPT !.generation = @ + 1, !.inbox = <<>>, !.outbox = <<>>]
    /\ UNCHANGED <<notes, before, batch, merges, file, clk, run, http>>

\* createNote: the new note stands first, its id is the time as a string
CreateNote(now) ==
    /\ wk.edits < MaxEdits
    /\ notes' = <<Note(StringOfNumber(now), "", now, now, FALSE)>> \o notes
    /\ wk' = [wk EXCEPT !.edits = @ + 1]
    /\ UNCHANGED <<before, batch, merges, file, clk, run, http>>

\* updateNote(id, {content}): the note gets the content and the time
UpdateNote(id, now) ==
    /\ wk.edits < MaxEdits
    /\ id \in IdsOf(notes)
    /\ notes' = [i \in DOMAIN notes |->
                    IF notes[i].id = id
                    THEN [notes[i] EXCEPT !.content = "edited", !.updatedAt = now]
                    ELSE notes[i]]
    /\ wk' = [wk EXCEPT !.edits = @ + 1]
    /\ UNCHANGED <<before, batch, merges, file, clk, run, http>>

\* deleteNotesByIds([id])
DeleteNote(id) ==
    /\ wk.edits < MaxEdits
    /\ id \in IdsOf(notes)
    /\ notes' = SelectSeq(notes, LAMBDA note : note.id # id)
    /\ wk' = [wk EXCEPT !.edits = @ + 1]
    /\ UNCHANGED <<before, batch, merges, file, clk, run, http>>

\* the clock reads at which the notes change: as the worker reads it, or later
EditTimes == {ClockStart, ClockStart + MaxTick}

\* the promise a handler awaits settles
Settle ==
    \/ PickerCancelled
    \/ PickerResolved
    \/ ReadFails
    \/ ConvertPosted
    \/ RestorePosted

NextLifecycle ==
    \/ ConvertClicked
    \/ PickerCancelled
    \/ PickerResolved
    \/ ReadFails
    \/ ConvertPosted
    \/ RestoreConfirmed
    \/ RestorePosted
    \/ WorkerOnMessage
    \/ MainOnMessage
    \/ EffectRerun
    \/ \E now \in EditTimes : CreateNote(now)
    \/ \E id \in IdsOf(notes), now \in EditTimes : UpdateNote(id, now)
    \/ \E id \in IdsOf(notes) : DeleteNote(id)

\* a pending promise settles, a posted message is handled by a live worker,
\* a delivered message is handled by the main thread
SpecLifecycle ==
    /\ InitLifecycle
    /\ [][NextLifecycle]_vars
    /\ WF_vars(Settle)
    /\ WF_vars(WorkerOnMessage)
    /\ WF_vars(MainOnMessage)

(***************************************************************************)
(* C26  Processing flag is released.                                       *)
(***************************************************************************)
\* C26: whenever isProcessing has been set to true it eventually becomes
\* false again, on every path, the effect terminating the worker included.
C26_ProcessingReleased == wk.isProcessing ~> ~wk.isProcessing

(***************************************************************************)
(* C28  Merge against the current collection.                              *)
(***************************************************************************)
\* worker.onmessage takes a successful RESTORE result in this step
RestoreHandled ==
    /\ wk.outbox # <<>>
    /\ IsReply(Head(wk.outbox))
    /\ Head(wk.outbox).success
    /\ Head(wk.outbox).type = "RESTORE"
    /\ wk'.generation = wk.generation
    /\ wk'.outbox = Tail(wk.outbox)

\* the notes of the current collection that the collection did not hold, or
\* held otherwise, when the request was posted
ChangedMeanwhile == {notes[i] : i \in DOMAIN notes} \ {wk.atPost[i] : i \in DOMAIN wk.atPost}

\* C28: when the result of a restore is handled, the merge takes the
\* collection as it is then: the new collection is the merge of the current
\* one with the imported notes; a note created since the request was posted
\* is kept, and a note edited since is kept unless an imported note of its id
\* has an updatedAt greater than or equal to the edited note's.
C28_MergeAgainstCurrent ==
    [][RestoreHandled =>
        /\ notes' = Merge(notes, Head(wk.outbox).notes)
        /\ \A note \in ChangedMeanwhile :
             \/ note \in {notes'[i] : i \in DOMAIN notes'}
             \/ /\ note.id \in IdsOf(wk.atPost)
                /\ \E k \in DOMAIN Head(wk.outbox).notes :
                     /\ Head(wk.outbox).notes[k].id = note.id
                     /\ GeqJS(Head(wk.outbox).notes[k].updatedAt, note.updatedAt)]_vars

====
